---- MODULE Spec2Model ----
(***************************************************************************)
(* A model of QMigrate/io/core.py: the delimited-text readers              *)
(* (read_stations, read_vmodel), the response reader (read_response_inv)   *)
(* and the Run class (constructor, name property, __str__, logger).        *)
(*                                                                         *)
(* Text is modelled as a sequence of lexemes (TLA+ strings): a line of a   *)
(* file such as  Latitude,Name  is <<"Latitude", ",", "Name">>, the name   *)
(* "ST1" is <<"ST", "1">> and the run name "run.1" is <<"run", ".", "1">>. *)
(* Delimiters, digits, the minus sign and '.' are always lexemes of their  *)
(* own, so splitting, number parsing and character replacement are done    *)
(* on the text the way the code does them.                                 *)
(***************************************************************************)
EXTENDS Integers, Sequences, FiniteSets, TLC

VARIABLES
    call,       \* the call made: a reader call or Run(), with its arguments
    outcome,    \* how that call ended: returned value or raised exception
    reads,      \* paths handed to obspy's read_inventory during that call
    pc,         \* position inside the life of a Run object / its logger call
    run,        \* the Run object's attributes: path, _name, stage, subname
    log,        \* the argument of the logger(log) call in progress
    logstem,    \* the local variable logstem of Run.logger
    handlers,   \* process-wide logging configuration (root logger handlers)
    configured, \* the calls made to the logging setup: (logstem, log)
    stdout,     \* records and prints written to standard output
    logfile,    \* records written to the log file
    exc         \* exception that ended the Run operation, "" when none

runVars == <<pc, run, log, logstem, handlers, configured, stdout, logfile, exc>>
vars    == <<call, outcome, reads, pc, run, log, logstem, handlers, configured,
             stdout, logfile, exc>>

----------------------------------------------------------------------------
(* Bounds of the model *)

\* Largest number of data rows in a station or velocity-model file.
MaxRows == 2

\* Largest number of lexemes in a run name or subname given to Run().
MaxNameLen == 3

----------------------------------------------------------------------------
(* Text helpers: what str, int and the csv parser do on lexeme sequences *)

DigitSeq == <<"0", "1", "2", "3", "4", "5", "6", "7", "8", "9">>

IsDigit(c) == \E i \in 1..10 : DigitSeq[i] = c

DigitVal(c) == (CHOOSE i \in 1..10 : DigitSeq[i] = c) - 1

\* The Python string spelled by a text: its lexemes concatenated.
RECURSIVE Concat(_)
Concat(text) == IF text = <<>> THEN "" ELSE Head(text) \o Concat(Tail(text))

\* str.join over texts: the fields with the delimiter lexeme between them.
RECURSIVE Join(_, _)
Join(fields, d) ==
    IF fields = <<>> THEN <<>>
    ELSE IF Len(fields) = 1 THEN fields[1]
    ELSE fields[1] \o <<d>> \o Join(Tail(fields), d)

\* The csv parser's field splitting: cut the line at every delimiter lexeme.
RECURSIVE Split(_, _)
Split(line, d) ==
    IF \A i \in 1..Len(line) : line[i] # d THEN <<line>>
    ELSE LET k == CHOOSE i \in 1..Len(line) :
                      line[i] = d /\ \A j \in 1..(i - 1) : line[j] # d
         IN  <<SubSeq(line, 1, k - 1)>> \o Split(SubSeq(line, k + 1, Len(line)), d)

\* Whether the csv parser reads a cell as an integer: an optional minus sign
\* followed by one or more digits.
IsInt(cell) ==
    LET body == IF cell # <<>> /\ cell[1] = "-" THEN Tail(cell) ELSE cell
    IN  body # <<>> /\ \A i \in 1..Len(body) : IsDigit(body[i])

RECURSIVE ParseNat(_)
ParseNat(digits) ==
    IF digits = <<>> THEN 0
    ELSE 10 * ParseNat(SubSeq(digits, 1, Len(digits) - 1))
         + DigitVal(digits[Len(digits)])

ParseInt(cell) ==
    IF cell[1] = "-" THEN 0 - ParseNat(Tail(cell)) ELSE ParseNat(cell)

\* str(n) for an integer n.
RECURSIVE NatToStr(_)
NatToStr(n) ==
    IF n < 10 THEN DigitSeq[n + 1]
    ELSE NatToStr(n \div 10) \o DigitSeq[(n % 10) + 1]

IntToStr(n) == IF n < 0 THEN "-" \o NatToStr(0 - n) ELSE NatToStr(n)

----------------------------------------------------------------------------
(* Table values: a cell of a DataFrame is an integer or a string *)

IntCell(n) == [t |-> "int", i |-> n, s |-> ""]
StrCell(x) == [t |-> "str", i |-> 0, s |-> x]

EmptyTable == [columns |-> <<>>, data |-> <<>>]

\* name in df.columns
HasColumn(df, name) == \E j \in 1..Len(df.columns) : df.columns[j] = name

ColumnIndex(df, name) == CHOOSE j \in 1..Len(df.columns) : df.columns[j] = name

\* df[name] of record r
Value(df, r, name) == df.data[r][ColumnIndex(df, name)]

\* pd.read_csv(file, delimiter=delimiter): the first line is the header, one
\* record per following line; a column all of whose cells read as integers
\* is numeric, any other column holds the cells as strings.  Every line of
\* the files drawn below has as many fields as the header.
read_csv(file, delimiter) ==
    LET header  == Split(file[1], delimiter)
        cells   == [r \in 1..(Len(file) - 1) |-> Split(file[r + 1], delimiter)]
        numeric == [j \in 1..Len(header) |->
                       \A r \in 1..(Len(file) - 1) : IsInt(cells[r][j])]
    IN  [columns |-> [j \in 1..Len(header) |-> Concat(header[j])],
         data    |-> [r \in 1..(Len(file) - 1) |->
                        [j \in 1..Len(header) |->
                            IF numeric[j] THEN IntCell(ParseInt(cells[r][j]))
                            ELSE StrCell(Concat(cells[r][j]))]]]

\* Python's  a or b or ... : the first truthy (non-empty) operand, else the last.
RECURSIVE PyOr(_)
PyOr(operands) ==
    IF Len(operands) = 1 \/ Head(operands) # "" THEN Head(operands)
    ELSE PyOr(Tail(operands))

\* A read that leaves the sign of the elevation as written.
NegateKeepsSign(v) == v

\* lambda x: -1*x  (for a string, repetition a negative number of times: "")
Negate(v) == IF v.t = "int" THEN IntCell(-1 * v.i) ELSE StrCell("")

\* df[name]: the column's values, one per record
Column(df, name) == [r \in 1..Len(df.data) |-> Value(df, r, name)]

\* df[name] = values: the column replaced, the others and the order kept
SetColumn(df, name, values) ==
    [df EXCEPT !.data =
        [r \in 1..Len(df.data) |->
            [j \in 1..Len(df.columns) |->
                IF df.columns[j] = name THEN values[r] ELSE df.data[r][j]]]]

\* the cast behind astype({name: "str"})
ToStr(v) == IF v.t = "int" THEN StrCell(IntToStr(v.i)) ELSE v

----------------------------------------------------------------------------
(* Outcomes of a call *)

NoOutcome == [kind |-> "none", exc |-> "", msg |-> <<>>, table |-> EmptyTable,
              inv |-> ""]

Raise(e, m) == [NoOutcome EXCEPT !.kind = "raise", !.exc = e, !.msg = m]

ReturnTable(df) == [NoOutcome EXCEPT !.kind = "return", !.table = df]

ReturnInv(x) == [NoOutcome EXCEPT !.kind = "return", !.inv = x]

----------------------------------------------------------------------------
(* read_stations and read_vmodel *)

read_stations(station_file, delimiter) ==
    LET stn_data == read_csv(station_file, delimiter)
    IN  IF ~HasColumn(stn_data, PyOr(<<"Latitude", "Longitude", "Elevation", "Name">>))
        THEN Raise("StationFileHeaderException", <<>>)
        ELSE IF ~HasColumn(stn_data, "Elevation")
        THEN Raise("KeyError", <<"Elevation">>)
        ELSE IF ~HasColumn(stn_data, "Name")
        THEN Raise("KeyError", <<"Name">>)
        ELSE LET rows    == 1..Len(stn_data.data)
                 negated == SetColumn(stn_data, "Elevation",
                                [r \in rows |-> Negate(Column(stn_data, "Elevation")[r])])
             IN  ReturnTable(SetColumn(negated, "Name",
                                [r \in rows |-> ToStr(Column(negated, "Name")[r])]))

read_vmodel(vmodel_file, delimiter) ==
    LET vmodel_data == read_csv(vmodel_file, delimiter)
    IN  IF ~HasColumn(vmodel_data, PyOr(<<"Depth", "Vp", "Vs">>))
        THEN Raise("VelocityModelFileHeaderException", <<>>)
        ELSE ReturnTable(vmodel_data)

----------------------------------------------------------------------------
(* read_response_inv and the external inventory reader it delegates to *)

\* The paths a caller may pass: a StationXML file, a file of no known
\* format, and a path at which no file exists.
ResponseFiles == {"response.xml", "notes.txt", "missing.xml"}

\* obspy.read_inventory(path): returns an Inventory, raises TypeError when
\* it detects no format, or another error when the file cannot be opened.
read_inventory(response_file) ==
    CASE response_file = "response.xml" -> ReturnInv("Inventory(response.xml)")
      [] response_file = "notes.txt"    ->
             Raise("TypeError", <<"Unknown format for file notes.txt">>)
      [] OTHER -> Raise("FileNotFoundError", <<"missing.xml">>)

\* A reader that opens the file before it looks at sac_pz_format.
read_response_inv_reads_first(response_file, sac_pz_format) ==
    [outcome |-> IF sac_pz_format
                 THEN Raise("NotImplementedError",
                            <<"SAC_PZ is not yet supported. Please contact ",
                              "the QuakeMigrate developers.">>)
                 ELSE read_inventory(response_file),
     reads   |-> <<response_file>>]

\* A reader that tries the file a second time when no format is detected
\* and reports the failure without the reader's diagnostic.
read_response_inv_retries(response_file, sac_pz_format) ==
    IF sac_pz_format
    THEN [outcome |-> Raise("NotImplementedError", <<>>), reads |-> <<>>]
    ELSE LET response_inv == read_inventory(response_file)
         IN  IF response_inv.kind = "raise" /\ response_inv.exc = "TypeError"
             THEN [outcome |-> Raise("TypeError",
                                     <<"Response file not readable by ObsPy: ",
                                       "\nPlease consult the ObsPy documentation.">>),
                   reads   |-> <<response_file, response_file>>]
             ELSE [outcome |-> response_inv, reads |-> <<response_file>>]

\* The result carries the outcome and the paths handed to the reader.
read_response_inv(response_file, sac_pz_format) ==
    IF sac_pz_format
    THEN [outcome |-> Raise("NotImplementedError",
                            <<"SAC_PZ is not yet supported. Please contact ",
                              "the QuakeMigrate developers.">>),
          reads   |-> <<>>]
    ELSE LET response_inv == read_inventory(response_file)
         IN  [outcome |->
                  IF response_inv.kind = "raise" /\ response_inv.exc = "TypeError"
                  THEN Raise("TypeError",
                             <<"Response file not readable by ObsPy: ">>
                             \o response_inv.msg
                             \o <<"\nPlease consult the ObsPy documentation.">>)
                  ELSE response_inv,
              reads   |-> <<response_file>>]

----------------------------------------------------------------------------
(* The files and arguments the reader calls are made with *)

Delimiters == {",", ";"}

RequiredStation == {"Latitude", "Longitude", "Elevation", "Name"}

RequiredVmodel == {"Depth", "Vp", "Vs"}

\* A value written to a file: an integer, or a name given as text.
Num(n)  == [t |-> "int", i |-> n, x |-> <<>>]
Word(w) == [t |-> "str", i |-> 0, x |-> w]

\* The values a column of a written file may hold.
Written(column) ==
    CASE column = "Latitude"  -> {Num(10)}
      [] column = "Longitude" -> {Num(-20)}
      [] column = "Elevation" -> {Num(100), Num(-5)}
      [] column = "Name"      -> {Word(<<"ST", "1">>), Word(<<"0", "0", "7">>),
                                  Word(<<"1", "2">>)}
      [] column = "Depth"     -> {Num(0), Num(1500)}
      [] column = "Vp"        -> {Num(5000)}
      [] column = "Vs"        -> {Num(3000)}

\* Headers: between one and all of the required names, in any order.
Headers(required) ==
    UNION {{h \in [1..n -> required] :
               \A i, j \in 1..n : i # j => h[i] # h[j]} :
           n \in 1..Cardinality(required)}

\* The records that fit a header: one value per column.
RECURSIVE Records(_)
Records(h) ==
    IF h = <<>> THEN {<<>>}
    ELSE {<<v>> \o r : v \in Written(Head(h)), r \in Records(Tail(h))}

RecordSeqs(h) == UNION {[1..n -> Records(h)] : n \in 0..MaxRows}

\* The decimal text of an integer, one lexeme per character.
RECURSIVE NatToText(_)
NatToText(n) ==
    IF n < 10 THEN <<DigitSeq[n + 1]>>
    ELSE NatToText(n \div 10) \o <<DigitSeq[(n % 10) + 1]>>

WriteCell(v) ==
    IF v.t = "int"
    THEN (IF v.i < 0 THEN <<"-">> \o NatToText(0 - v.i) ELSE NatToText(v.i))
    ELSE v.x

\* The file written from a header and records with field delimiter fd.
WriteFile(h, records, fd) ==
    <<Join([j \in 1..Len(h) |-> <<h[j]>>], fd)>>
    \o [r \in 1..Len(records) |->
           Join([j \in 1..Len(h) |-> WriteCell(records[r][j])], fd)]

NoCall == [op |-> "none", header |-> <<>>, records |-> <<>>, file |-> <<>>,
           delimiter |-> "", response_file |-> "", sac_pz_format |-> FALSE,
           path |-> <<>>, name |-> <<>>, subname |-> <<>>, stage |-> ""]

----------------------------------------------------------------------------------------------------------------------------------------
(* The calls a caller may make: one reader call per behaviour, since the   *)
(* readers keep no state from one call to the next                         *)

StationCall(h, records, fd, delimiter) ==
    [NoCall EXCEPT !.op = "read_stations", !.header = h, !.records = records,
                   !.file = WriteFile(h, records, fd), !.delimiter = delimiter]

VmodelCall(h, records, fd, delimiter) ==
    [NoCall EXCEPT !.op = "read_vmodel", !.header = h, !.records = records,
                   !.file = WriteFile(h, records, fd), !.delimiter = delimiter]

ResponseCall(response_file, sac_pz_format) ==
    [NoCall EXCEPT !.op = "read_response_inv", !.response_file = response_file,
                   !.sac_pz_format = sac_pz_format]

\* Some call of each reader, on some written file and with some delimiter.
SomeStationCall ==
    \E h \in Headers(RequiredStation) :
      \E records \in RecordSeqs(h), fd \in Delimiters, delimiter \in Delimiters :
        call = StationCall(h, records, fd, delimiter)

SomeVmodelCall ==
    \E h \in Headers(RequiredVmodel) :
      \E records \in RecordSeqs(h), fd \in Delimiters, delimiter \in Delimiters :
        call = VmodelCall(h, records, fd, delimiter)

SomeResponseCall ==
    \E response_file \in ResponseFiles, sac_pz_format \in BOOLEAN :
        call = ResponseCall(response_file, sac_pz_format)

----------------------------------------------------------------------------------------------------------------------------------------
(* The Run class *)

\* stage=None, the constructor's default
None == "<None>"

Stages == {None, "detect", "trigger", "locate"}

\* Base directories: each a sequence of path components.
Paths == {<<<<"out">>>>, <<<<"data">>, <<"runs">>>>}

NameLexemes == {"run", "1", "."}

\* Run names and subnames: every text of at most MaxNameLen lexemes, the
\* empty text (the default subname) included.
Names == UNION {[1..n -> NameLexemes] : n \in 0..MaxNameLen}

\* old in text
Contains(text, old) == \E i \in 1..Len(text) : text[i] = old

\* text.replace(old, new) for a one-character old
Replace(text, old, new) ==
    [i \in 1..Len(text) |-> IF text[i] = old THEN new ELSE text[i]]

\* pathlib's  p / segment : an empty segment and the segment "." add no
\* component.
Div(p, segment) ==
    IF segment = <<>> \/ segment = <<".">> THEN p ELSE Append(p, segment)

NoRun == [path |-> <<>>, _name |-> <<>>, stage |-> "", subname |-> <<>>]

PrintEntry(text) == [kind |-> "print", text |-> text, path |-> <<>>, name |-> <<>>]

DotWarning ==
    PrintEntry("Warning: The character '.' is not allowed in runnames/subnames - replacing with '_'.")

\* A constructor that cleans the name and forgets the subname.
Run__init__forgets_subname(path, name, subname, stage) ==
    LET dotted == Contains(name, ".")
        name1  == IF dotted THEN Replace(name, ".", "_") ELSE name
    IN  [self    |-> [path |-> Div(path, name1), _name |-> name1,
                      stage |-> stage, subname |-> subname],
         printed |-> IF dotted THEN <<DotWarning>> ELSE <<>>]

\* Run.__init__: the object built and what was printed.
Run__init__(path, name, subname, stage) ==
    LET dotted   == Contains(name, ".") \/ Contains(subname, ".")
        name1    == IF dotted THEN Replace(name, ".", "_") ELSE name
        subname1 == IF dotted THEN Replace(subname, ".", "_") ELSE subname
    IN  [self    |-> [path |-> Div(path, name1), _name |-> name1,
                      stage |-> stage, subname |-> subname1],
         printed |-> IF dotted THEN <<DotWarning>> ELSE <<>>]

\* A name property that joins the subname on even when it is empty.
name_always_joined(self) == self._name \o <<"_">> \o self.subname

\* Run.name (property)
name(self) ==
    IF self.subname = <<>> THEN self._name
    ELSE self._name \o <<"_">> \o self.subname

\* A summary that gives the run name without the subname.
Run__str__plain_name(self) ==
    [kind |-> "record", text |-> "QuakeMigrate RUN", path |-> self.path,
     name |-> self._name]

\* Run.__str__: the banner, the spacer lines left out.
Run__str__(self) ==
    [kind |-> "record", text |-> "QuakeMigrate RUN", path |-> self.path,
     name |-> name(self)]

\* A stem that ends in the run name without the subname.
logger_logstem_plain_name(self) ==
    IF self.stage = None THEN [raised |-> TRUE, logstem |-> <<>>]
    ELSE [raised  |-> FALSE,
          logstem |-> Div(Div(Div(Div(self.path, <<self.stage>>), self.subname),
                              <<"logs">>), self._name)]

\* A stem that leaves an unset stage out instead of failing on it.
logger_logstem_skips_unset_stage(self) ==
    [raised  |-> FALSE,
     logstem |-> Div(Div(Div(Div(self.path,
                                 IF self.stage = None THEN <<>> ELSE <<self.stage>>),
                             self.subname), <<"logs">>), name(self))]

\* The first statement of Run.logger: dividing a path by None raises
\* TypeError before anything else is evaluated.
logger_logstem(self) ==
    IF self.stage = None THEN [raised |-> TRUE, logstem |-> <<>>]
    ELSE [raised  |-> FALSE,
          logstem |-> Div(Div(Div(Div(self.path, <<self.stage>>), self.subname),
                              <<"logs">>), name(self))]

\* QMigrate.util.logger(logstem, log): standard output always, the log file
\* as well when log is true.
util_logger(stem, enable) ==
    {"stdout"} \cup (IF enable THEN {"file"} ELSE {})

RunInit ==
    /\ pc = "start"
    /\ run = NoRun
    /\ log = FALSE
    /\ logstem = <<>>
    /\ handlers = {}
    /\ configured = <<>>
    /\ stdout = <<>>
    /\ logfile = <<>>
    /\ exc = ""

Init ==
    /\ (SomeStationCall \/ SomeVmodelCall \/ SomeResponseCall)
    /\ outcome = NoOutcome
    /\ reads = <<>>
    /\ RunInit

----------------------------------------------------------------------------
(* The reader calls *)

ReadStations ==
    /\ call.op = "read_stations"
    /\ outcome.kind = "none"
    /\ outcome' = read_stations(call.file, call.delimiter)
    /\ UNCHANGED <<call, reads>>
    /\ UNCHANGED runVars

ReadVmodel ==
    /\ call.op = "read_vmodel"
    /\ outcome.kind = "none"
    /\ outcome' = read_vmodel(call.file, call.delimiter)
    /\ UNCHANGED <<call, reads>>
    /\ UNCHANGED runVars

ReadResponseInv ==
    /\ call.op = "read_response_inv"
    /\ outcome.kind = "none"
    /\ LET result == read_response_inv(call.response_file, call.sac_pz_format)
       IN  /\ outcome' = result.outcome
           /\ reads' = result.reads
    /\ UNCHANGED call
    /\ UNCHANGED runVars

Next == ReadStations \/ ReadVmodel \/ ReadResponseInv

Spec == Init /\ [][Next]_vars

----------------------------------------------------------------------------------------------------------------------------------------
(* The life of a Run object: construction, then one logger(log) call *)

InitRun ==
    /\ call = NoCall
    /\ outcome = NoOutcome
    /\ reads = <<>>
    /\ RunInit

Construct ==
    /\ pc = "start"
    /\ \E path \in Paths, nm \in Names, subname \in Names, stage \in Stages :
         LET built == Run__init__(path, nm, subname, stage)
         IN  /\ call' = [NoCall EXCEPT !.op = "Run", !.path = path, !.name = nm,
                                       !.subname = subname, !.stage = stage]
             /\ run' = built.self
             /\ stdout' = stdout \o built.printed
    /\ pc' = "constructed"
    /\ UNCHANGED <<outcome, reads, log, logstem, handlers, configured, logfile, exc>>

\* logger(log), line 211: compose the stem, or fail on an unset stage.
LoggerStem ==
    /\ pc = "constructed"
    /\ \E b \in BOOLEAN : log' = b
    /\ LET composed == logger_logstem(run)
       IN  IF composed.raised
           THEN /\ pc' = "raised"
                /\ exc' = "TypeError"
                /\ UNCHANGED logstem
           ELSE /\ pc' = "stem"
                /\ logstem' = composed.logstem
                /\ UNCHANGED exc
    /\ UNCHANGED <<call, outcome, reads, run, handlers, configured, stdout, logfile>>

\* logger(log), line 212: util.logger(logstem, log)
LoggerSetup ==
    /\ pc = "stem"
    /\ configured' = Append(configured, [logstem |-> logstem, log |-> log])
    /\ handlers' = util_logger(logstem, log)
    /\ pc' = "configured"
    /\ UNCHANGED <<call, outcome, reads, run, log, logstem, stdout, logfile, exc>>

\* logger(log), line 213: logging.info(self) hands the banner to every
\* configured handler.
LoggerInfo ==
    /\ pc = "configured"
    /\ stdout' = IF "stdout" \in handlers THEN Append(stdout, Run__str__(run))
                 ELSE stdout
    /\ logfile' = IF "file" \in handlers THEN Append(logfile, Run__str__(run))
                  ELSE logfile
    /\ pc' = "done"
    /\ UNCHANGED <<call, outcome, reads, run, log, logstem, handlers, configured, exc>>

NextRun == Construct \/ LoggerStem \/ LoggerSetup \/ LoggerInfo

SpecRun == InitRun /\ [][NextRun]_vars

----------------
(* Properties of the readers, checked under Spec *)

\* The column names of the called file's header as the call's delimiter
\* cuts them.
HeaderNames == {Concat(c) : c \in {Split(call.file[1], call.delimiter)[j] :
                    j \in 1..Len(Split(call.file[1], call.delimiter))}}

StationsDone == call.op = "read_stations" /\ outcome.kind # "none"

VmodelDone == call.op = "read_vmodel" /\ outcome.kind # "none"

ResponseDone == call.op = "read_response_inv" /\ outcome.kind # "none"

\* The value written in record r of the called file under column col.
WrittenValue(r, col) ==
    call.records[r][CHOOSE j \in 1..Len(call.header) : call.header[j] = col]

\* C1: every read_stations call on a file whose header lacks one of
\* Latitude, Longitude, Elevation, Name ends in StationFileHeaderException:
\* it neither returns a table nor ends in another error.
C1_MissingStationColumnRaisesHeaderError ==
    (StationsDone /\ \E col \in RequiredStation : col \notin HeaderNames)
        => (outcome.kind = "raise" /\ outcome.exc = "StationFileHeaderException")

\* C2: every read_vmodel call on a file whose header lacks one of Depth, Vp,
\* Vs ends in VelocityModelFileHeaderException and returns no table.
C2_MissingVmodelColumnRaisesHeaderError ==
    (VmodelDone /\ \E col \in RequiredVmodel : col \notin HeaderNames)
        => (outcome.kind = "raise"
            /\ outcome.exc = "VelocityModelFileHeaderException")

\* C3: a read_stations call on a file whose header holds all four required
\* columns, in any order, returns the records in the order written, the
\* columns in the order written, every Elevation negated, Latitude and
\* Longitude as written, and every Name a string: the name as written unless
\* it is a number written with leading zeros.
C3_ValidStationsNegatedAndNamed ==
    (StationsDone /\ RequiredStation \subseteq HeaderNames)
        => /\ outcome.kind = "return"
           /\ outcome.table.columns = call.header
           /\ Len(outcome.table.data) = Len(call.records)
           /\ \A r \in 1..Len(call.records) :
                /\ Value(outcome.table, r, "Elevation").t = "int"
                /\ Value(outcome.table, r, "Elevation").i
                       = 0 - WrittenValue(r, "Elevation").i
                /\ Value(outcome.table, r, "Latitude").t = "int"
                /\ Value(outcome.table, r, "Latitude").i
                       = WrittenValue(r, "Latitude").i
                /\ Value(outcome.table, r, "Longitude").t = "int"
                /\ Value(outcome.table, r, "Longitude").i
                       = WrittenValue(r, "Longitude").i
                /\ Value(outcome.table, r, "Name").t = "str"
                /\ (WrittenValue(r, "Name").x[1] # "0"
                       => Value(outcome.table, r, "Name").s
                              = Concat(WrittenValue(r, "Name").x))

\* A returned two-record table read from a file whose columns are not in
\* the documented order, whose names are all digits and whose elevations
\* differ from record to record.
C3_Witness ==
    /\ StationsDone
    /\ RequiredStation \subseteq HeaderNames
    /\ call.header[1] = "Name"
    /\ call.header[2] = "Elevation"
    /\ Len(call.records) = 2
    /\ WrittenValue(1, "Name").x = <<"1", "2">>
    /\ WrittenValue(2, "Name").x = <<"1", "2">>
    /\ WrittenValue(1, "Elevation").i = 100
    /\ WrittenValue(2, "Elevation").i = -5
    /\ outcome.kind = "return"
    /\ Value(outcome.table, 1, "Name").s = "12"
    /\ Value(outcome.table, 2, "Elevation").i = 5

\* C4: read_response_inv with sac_pz_format true ends in
\* NotImplementedError for every path, and no path has been handed to the
\* inventory reader.
C4_SacPzRaisesBeforeAnyRead ==
    (ResponseDone /\ call.sac_pz_format)
        => /\ outcome.kind = "raise"
           /\ outcome.exc = "NotImplementedError"
           /\ reads = <<>>

\* The unsupported-format error on a path that the reader could have read.
C4_Witness ==
    /\ ResponseDone
    /\ call.sac_pz_format
    /\ call.response_file = "response.xml"
    /\ outcome.exc = "NotImplementedError"

\* C5: read_response_inv with sac_pz_format false hands the path to the
\* inventory reader exactly once; a format-detection failure (TypeError) of
\* the reader ends the call in a TypeError whose message holds the reader's
\* diagnostic and, after it, the guidance text; a result of the reader is
\* returned as it is.
C5_SingleReadWrapsTypeError ==
    (ResponseDone /\ ~call.sac_pz_format)
        => LET reported == read_inventory(call.response_file)
           IN  /\ reads = <<call.response_file>>
               /\ (reported.kind = "raise" /\ reported.exc = "TypeError")
                    => /\ outcome.kind = "raise"
                       /\ outcome.exc = "TypeError"
                       /\ \E i, j \in 1..Len(outcome.msg) :
                            /\ i < j
                            /\ outcome.msg[i] = reported.msg[1]
                            /\ outcome.msg[j]
                                 = "\nPlease consult the ObsPy documentation."
               /\ reported.kind = "return" => outcome = reported

\* A call that ended in the wrapped error after one read of a file of no
\* known format.
C5_Witness ==
    /\ ResponseDone
    /\ ~call.sac_pz_format
    /\ call.response_file = "notes.txt"
    /\ outcome.exc = "TypeError"
    /\ Len(outcome.msg) = 3
    /\ reads = <<"notes.txt">>

----------------------------------------------------------------------------
(* Properties of the Run class, checked under SpecRun *)

Constructed == pc # "start"

\* The text with every '.' replaced by '_'.
Sanitized(text) ==
    [i \in 1..Len(text) |-> IF text[i] = "." THEN "_" ELSE text[i]]

\* The path component a text contributes: none when the text is empty.
Seg(text) == IF text = <<>> THEN <<>> ELSE <<text>>

\* The sanitized name alone, or joined to the sanitized subname by '_'.
EffectiveName ==
    IF call.subname = <<>> THEN Sanitized(call.name)
    ELSE Sanitized(call.name) \o <<"_">> \o Sanitized(call.subname)

Warned == \E i \in 1..Len(stdout) : stdout[i].kind = "print"

\* The log records, as opposed to prints, that standard output received.
StdoutRecords == SelectSeq(stdout, LAMBDA e : e.kind = "record")

Banner == [kind |-> "record", text |-> "QuakeMigrate RUN",
           path |-> call.path \o Seg(Sanitized(call.name)),
           name |-> EffectiveName]

\* C6: after Run(path, name, subname, stage) the stored name and subname
\* hold no '.', each is its input with every '.' replaced by '_', and the
\* warning was printed exactly when the name or the subname held a '.'.
C6_NamesSanitizedWarnIffDot ==
    Constructed
        => /\ run._name = Sanitized(call.name)
           /\ run.subname = Sanitized(call.subname)
           /\ ~Contains(run._name, ".")
           /\ ~Contains(run.subname, ".")
           /\ Warned <=> (Contains(call.name, ".") \/ Contains(call.subname, "."))
           /\ (~Contains(call.name, ".") /\ ~Contains(call.subname, "."))
                => (run._name = call.name /\ run.subname = call.subname
                    /\ stdout = SelectSeq(stdout, LAMBDA e : e.kind = "record"))

\* Run(path, "run.1") stored as "run_1" with the warning printed.
C6_Witness ==
    /\ Constructed
    /\ call.name = <<"run", ".", "1">>
    /\ call.subname = <<>>
    /\ run._name = <<"run", "_", "1">>
    /\ Warned

\* C7: the name property of every constructed Run is the sanitized name
\* alone when the subname is empty, and sanitized name, '_', sanitized
\* subname otherwise; the banner logged carries that name.
C7_EffectiveName ==
    Constructed
        => /\ name(run) = EffectiveName
           /\ call.subname = <<>> => name(run) = Sanitized(call.name)
           /\ pc = "done" => stdout[Len(stdout)].name = EffectiveName

\* A Run with an empty subname whose banner was logged under the bare name.
C7_Witness ==
    /\ pc = "done"
    /\ call.name = <<"run", "1">>
    /\ call.subname = <<>>
    /\ name(run) = <<"run", "1">>
    /\ stdout[Len(stdout)].name = <<"run", "1">>

\* C8 as claimed: the stem handed to the logging setup is
\* path/name/stage/subname/logs/name with the sanitized run name in both
\* places, for every subname, and the run root is path/name.
C8_StemEndsInRunName ==
    configured # <<>>
        => /\ configured[1].logstem
                 = call.path \o Seg(Sanitized(call.name)) \o <<<<call.stage>>>>
                   \o Seg(Sanitized(call.subname)) \o <<<<"logs">>>>
                   \o Seg(Sanitized(call.name))
           /\ run.path = call.path \o Seg(Sanitized(call.name))

\* C8 amended: the stem handed to the logging setup is
\* path/name/stage/subname/logs/effective-name, whose last component is the
\* name property (name alone for an empty subname, name_subname otherwise),
\* an empty subname adding no component; the run root is path/name.
C8_StemEndsInEffectiveName ==
    configured # <<>>
        => /\ Len(configured) = 1
           /\ configured[1].logstem
                 = call.path \o Seg(Sanitized(call.name)) \o <<<<call.stage>>>>
                   \o Seg(Sanitized(call.subname)) \o <<<<"logs">>>>
                   \o Seg(EffectiveName)
           /\ run.path = call.path \o Seg(Sanitized(call.name))

\* The logging setup called for a Run with a dotted name and a subname.
C8_Witness ==
    /\ configured # <<>>
    /\ call.path = <<<<"data">>, <<"runs">>>>
    /\ call.name = <<"run", ".", "1">>
    /\ call.subname = <<"1">>
    /\ call.stage = "locate"
    /\ configured[1].logstem
         = <<<<"data">>, <<"runs">>, <<"run", "_", "1">>, <<"locate">>, <<"1">>,
             <<"logs">>, <<"run", "_", "1", "_", "1">>>>

\* C9: in a logger(log) call on a Run with a set stage no record is emitted
\* before the logging setup has run; the banner (the run's path and
\* effective name) is the first record after it; standard output receives
\* it whatever log is, the log file exactly when log is true.
C9_BannerAfterSetupToConfiguredSinks ==
    /\ (StdoutRecords # <<>> \/ logfile # <<>>)
          => (configured # <<>> /\ "stdout" \in handlers /\ pc = "done")
    /\ configured # <<>> => configured[1].log = log
    /\ pc = "done"
          => /\ call.stage # None
             /\ StdoutRecords = <<Banner>>
             /\ logfile = IF log THEN <<Banner>> ELSE <<>>

\* A finished logger(True) call on a Run with a subname: the banner on
\* standard output, after the constructor's warning, and in the log file.
C9_Witness ==
    /\ pc = "done"
    /\ log
    /\ call.name = <<"run", ".", "1">>
    /\ call.subname = <<"run">>
    /\ Len(stdout) = 2
    /\ stdout[1].kind = "print"
    /\ stdout[2] = Banner
    /\ logfile = <<Banner>>

\* C10: logger(log) on a Run whose stage was left unset fails with
\* TypeError while composing the stem, whatever log is: the logging setup
\* was not called, no record was emitted, and path, name, subname and stage
\* are as the constructor left them.
C10_UnsetStageFailsBeforeSetup ==
    (Constructed /\ call.stage = None /\ pc # "constructed")
        => /\ pc = "raised"
           /\ exc = "TypeError"
           /\ configured = <<>>
           /\ handlers = {}
           /\ logstem = <<>>
           /\ StdoutRecords = <<>>
           /\ logfile = <<>>
           /\ run = [path    |-> call.path \o Seg(Sanitized(call.name)),
                     _name   |-> Sanitized(call.name),
                     stage   |-> None,
                     subname |-> Sanitized(call.subname)]

\* A failed logger(True) call on a Run constructed without a stage.
C10_Witness ==
    /\ pc = "raised"
    /\ log
    /\ call.stage = None
    /\ call.subname = <<"run">>
    /\ exc = "TypeError"

====
